---- MODULE Spec2Model ----
(***************************************************************************)
(* Model of src/storage/types.rs: the Mutation and TxnStatus value types   *)
(* and the dispatch of a ProcessResult to a StorageCallback                *)
(* (StorageCallback::execute and StorageCallback::execute_batch).          *)
(***************************************************************************)
EXTENDS Integers, Sequences, FiniteSets, TLC

VARIABLES
    \* ---- dispatch bridge ----
    callback,     \* the StorageCallback variant held by the pipeline
    owned,        \* TRUE until `execute(self, ..)` moves the callback away
    panicked,     \* TRUE once a panic!() has unwound the unit of work
    ncalls,       \* how many times the continuation has been invoked so far
    lastOp,       \* the last call made on the callback, with its argument
    lastCalls,    \* the arguments the continuation received during lastOp
    delivered,    \* id -> how often the continuation was handed that id (0, 1, many)
    reported,     \* id -> how often callers passed that id to execute_batch (0, 1, many)
    waves,        \* number of execute_batch calls made so far
    \* ---- Mutation ----
    mutation,     \* the Mutation value
    mutArgs,      \* the fields the Mutation was constructed from
    moved,        \* TRUE once `into_inner(self)` consumed the Mutation
    keyRet,       \* Option: what the last key() call returned
    keyCalls,     \* number of key() calls made
    insertRet,    \* Option: what the last is_insert() call returned
    inner,        \* Option: what into_inner() returned
    \* ---- TxnStatus ----
    lhs, rhs,     \* two TxnStatus values
    built,        \* how lhs was last built (constructor and arguments)
    eqRet         \* Option: result of the last `lhs == rhs`

dispatchVars == <<callback, owned, panicked, ncalls, lastOp, lastCalls,
                  delivered, reported, waves>>
mutationVars == <<mutation, mutArgs, moved, keyRet, keyCalls, insertRet, inner>>
txnVars      == <<lhs, rhs, built, eqRet>>
vars         == <<dispatchVars, mutationVars, txnVars>>

----------------------------------------------------------------------------
(* Bounds of the model *)

MaxVec      == 2   \* longest Vec payload (results, locks, secondary keys)
MaxTs       == 1   \* largest lock_ttl / TimeStamp value
MaxBatch    == 2   \* longest input sequence of one execute_batch call
MaxWaves    == 2   \* most execute_batch calls on one callback
MaxKeyCalls == 2   \* most key() calls on one Mutation

----------------------------------------------------------------------------
(* Generic values *)

None    == <<>>
Some(x) == <<x>>

\* the unit value ()
Unit == "()"

\* Result<T>
Ok(v)  == [ok |-> TRUE, val |-> v]
Err(e) == [ok |-> FALSE, err |-> e]

RECURSIVE SeqsUpTo(_, _)
SeqsUpTo(S, n) ==
    IF n = 0 THEN {<<>>}
    ELSE LET shorter == SeqsUpTo(S, n - 1)
         IN  shorter \cup {Append(s, x) : s \in {t \in shorter : Len(t) = n - 1}, x \in S}

\* opaque external values
Keys         == {"k1", "k2"}
Values       == {"v1", "v2"}
RawKeys      == {"r1", "r2"}
Errors       == {"KeyIsLocked", "AlreadyExist"}
LockInfos    == {"lockinfo1", "lockinfo2"}
Commands     == {"cmd"}
Ids          == {1, 2}
Timestamps   == 0..MaxTs

----------------------------------------------------------------------------
(* MvccInfo *)

MvccInfoDefault == [lock |-> None, writes |-> <<>>, values |-> <<>>]

MvccInfos ==
    { MvccInfoDefault,
      [lock |-> Some("lock"), writes |-> << <<1, "write">> >>, values |-> << <<0, "v1">> >>] }

----------------------------------------------------------------------------
(* Mutation *)

\* Option<Vec<RawKey>>
SecondaryKeys == {None} \cup {Some(s) : s \in SeqsUpTo(RawKeys, MaxVec)}

\* enum Mutation: the four tuple variants
Put(key, value, secondary_keys) ==
    [tag |-> "Put", key |-> key, value |-> value, secondary_keys |-> secondary_keys]
Delete(key, secondary_keys) ==
    [tag |-> "Delete", key |-> key, secondary_keys |-> secondary_keys]
Lock(key, secondary_keys) ==
    [tag |-> "Lock", key |-> key, secondary_keys |-> secondary_keys]
Insert(key, value, secondary_keys) ==
    [tag |-> "Insert", key |-> key, value |-> value, secondary_keys |-> secondary_keys]

\* what a caller writes to build a Mutation: the variant and its fields
\* (a Delete or Lock has no value: the field is None)
MutationArgs ==
    [tag : {"Put", "Insert"}, key : Keys, value : {Some(v) : v \in Values},
     secondary_keys : SecondaryKeys]
    \cup
    [tag : {"Delete", "Lock"}, key : Keys, value : {None},
     secondary_keys : SecondaryKeys]

NewMutation(a) ==
    CASE a.tag = "Put"    -> Put(a.key, a.value[1], a.secondary_keys)
      [] a.tag = "Delete" -> Delete(a.key, a.secondary_keys)
      [] a.tag = "Lock"   -> Lock(a.key, a.secondary_keys)
      [] a.tag = "Insert" -> Insert(a.key, a.value[1], a.secondary_keys)

\* Mutation::key(&self) -> &Key
MutationKey(m) ==
    CASE m.tag = "Put"    -> m.key
      [] m.tag = "Delete" -> m.key
      [] m.tag = "Lock"   -> m.key
      [] m.tag = "Insert" -> m.key

\* into_inner as it would be if Delete and Lock lost their secondary keys
IntoInnerLosingSecondaries(m) ==
    CASE m.tag = "Put"    -> <<m.key, Some(m.value), m.secondary_keys>>
      [] m.tag = "Delete" -> <<m.key, None, None>>
      [] m.tag = "Lock"   -> <<m.key, None, None>>
      [] m.tag = "Insert" -> <<m.key, Some(m.value), m.secondary_keys>>

\* Mutation::into_inner(self) -> (Key, Option<Value>, Option<Vec<RawKey>>)
IntoInner(m) ==
    CASE m.tag = "Put"    -> <<m.key, Some(m.value), m.secondary_keys>>
      [] m.tag = "Delete" -> <<m.key, None, m.secondary_keys>>
      [] m.tag = "Lock"   -> <<m.key, None, m.secondary_keys>>
      [] m.tag = "Insert" -> <<m.key, Some(m.value), m.secondary_keys>>

\* is_insert as it would be if it asked "does the mutation carry a value"
IsInsertOrPut(m) ==
    CASE m.tag = "Insert" -> TRUE
      [] m.tag = "Put"    -> TRUE
      [] OTHER            -> FALSE

\* Mutation::is_insert(&self) -> bool
IsInsert(m) ==
    CASE m.tag = "Insert" -> TRUE
      [] OTHER            -> FALSE

MutationInit ==
    /\ mutArgs \in MutationArgs
    /\ mutation = NewMutation(mutArgs)
    /\ moved = FALSE
    /\ keyRet = None
    /\ keyCalls = 0
    /\ insertRet = None
    /\ inner = None

\* m.key(): a shared borrow, the Mutation stays as it is
CallKey ==
    /\ ~moved
    /\ keyCalls < MaxKeyCalls
    /\ keyRet' = Some(MutationKey(mutation))
    /\ keyCalls' = keyCalls + 1
    /\ UNCHANGED <<mutation, mutArgs, moved, insertRet, inner>>

\* m.is_insert(): a shared borrow
CallIsInsert ==
    /\ ~moved
    /\ insertRet = None
    /\ insertRet' = Some(IsInsert(mutation))
    /\ UNCHANGED <<mutation, mutArgs, moved, keyRet, keyCalls, inner>>

\* m.into_inner(): takes self by value, the Mutation is gone afterwards
CallIntoInner ==
    /\ ~moved
    /\ inner' = Some(IntoInner(mutation))
    /\ moved' = TRUE
    /\ UNCHANGED <<mutation, mutArgs, keyRet, keyCalls, insertRet>>

----------------------------------------------------------------------------
(* TxnStatus *)

Rollbacked   == [tag |-> "Rollbacked"]
TtlExpire    == [tag |-> "TtlExpire"]
LockNotExist == [tag |-> "LockNotExist"]
Uncommitted(lock_ttl, min_commit_ts) ==
    [tag |-> "Uncommitted", lock_ttl |-> lock_ttl, min_commit_ts |-> min_commit_ts]
Committed(commit_ts) ==
    [tag |-> "Committed", commit_ts |-> commit_ts]

TxnStatuses ==
    {Rollbacked, TtlExpire, LockNotExist}
    \cup {Uncommitted(ttl, ts) : ttl \in Timestamps, ts \in Timestamps}
    \cup {Committed(ts) : ts \in Timestamps}

\* TxnStatus::uncommitted(lock_ttl, min_commit_ts)
uncommitted(lock_ttl, min_commit_ts) ==
    Uncommitted(lock_ttl, min_commit_ts)

\* TxnStatus::committed(commit_ts)
committed(commit_ts) ==
    Committed(commit_ts)

\* an equality that overlooks min_commit_ts
TxnStatusEqIgnoringMinCommitTs(a, b) ==
    IF a.tag # b.tag THEN FALSE
    ELSE CASE a.tag = "Uncommitted" -> a.lock_ttl = b.lock_ttl
           [] a.tag = "Committed"   -> a.commit_ts = b.commit_ts
           [] OTHER                 -> TRUE

\* #[derive(PartialEq)]: equal discriminants, then the fields pairwise
TxnStatusEq(a, b) ==
    IF a.tag # b.tag THEN FALSE
    ELSE CASE a.tag = "Uncommitted" ->
                 a.lock_ttl = b.lock_ttl /\ a.min_commit_ts = b.min_commit_ts
           [] a.tag = "Committed"   -> a.commit_ts = b.commit_ts
           [] OTHER                 -> TRUE

TxnInit ==
    /\ lhs = Rollbacked
    /\ rhs = Rollbacked
    /\ built = [fn |-> "literal"]
    /\ eqRet = None

\* let lhs = TxnStatus::uncommitted(ttl, ts)
BuildUncommitted ==
    \E ttl \in Timestamps, ts \in Timestamps :
        /\ lhs' = uncommitted(ttl, ts)
        /\ built' = [fn |-> "uncommitted", lock_ttl |-> ttl, min_commit_ts |-> ts]
        /\ eqRet' = None
        /\ UNCHANGED rhs

\* let lhs = TxnStatus::committed(ts)
BuildCommitted ==
    \E ts \in Timestamps :
        /\ lhs' = committed(ts)
        /\ built' = [fn |-> "committed", commit_ts |-> ts]
        /\ eqRet' = None
        /\ UNCHANGED rhs

\* let lhs = <a variant written out>
WriteLhs ==
    \E s \in TxnStatuses :
        /\ lhs' = s
        /\ built' = [fn |-> "literal"]
        /\ eqRet' = None
        /\ UNCHANGED rhs

\* let rhs = <a variant written out>
WriteRhs ==
    \E s \in TxnStatuses :
        /\ rhs' = s
        /\ eqRet' = None
        /\ UNCHANGED <<lhs, built>>

\* lhs == rhs
Compare ==
    /\ eqRet = None
    /\ eqRet' = Some(TxnStatusEq(lhs, rhs))
    /\ UNCHANGED <<lhs, rhs, built>>

----------------------------------------------------------------------------
(* ProcessResult and StorageCallback *)

\* enum StorageCallback: the variants, by the continuation they hold
SingleShotCallbacks ==
    {"Boolean", "Booleans", "MvccInfoByKey", "MvccInfoByStartTs", "Locks", "TxnStatus"}
BatchCallbacks == {"BatchBoolean", "BatchBooleans"}
StorageCallbacks == SingleShotCallbacks \cup BatchCallbacks

\* Vec<Result<()>>
ResultVecs == SeqsUpTo({Ok(Unit)} \cup {Err(e) : e \in Errors}, MaxVec)

\* enum ProcessResult
Res                 == [tag |-> "Res"]
MultiRes(results)   == [tag |-> "MultiRes", results |-> results]
MvccKey(mvcc)       == [tag |-> "MvccKey", mvcc |-> mvcc]
MvccStartTs(mvcc)   == [tag |-> "MvccStartTs", mvcc |-> mvcc]
Locks(locks)        == [tag |-> "Locks", locks |-> locks]
TxnStatusRes(st)    == [tag |-> "TxnStatus", txn_status |-> st]
NextCommand(cmd)    == [tag |-> "NextCommand", cmd |-> cmd]
Failed(err)         == [tag |-> "Failed", err |-> err]

ProcessResults ==
    {Res}
    \cup {MultiRes(r) : r \in ResultVecs}
    \cup {MvccKey(m) : m \in MvccInfos}
    \cup {MvccStartTs(None)}
    \cup {MvccStartTs(Some(<<k, m>>)) : k \in {"k1"}, m \in MvccInfos}
    \cup {Locks(l) : l \in SeqsUpTo(LockInfos, MaxVec)}
    \cup {TxnStatusRes(st) : st \in TxnStatuses}
    \cup {NextCommand(c) : c \in Commands}
    \cup {Failed(e) : e \in Errors}

\* the results handed to execute_batch: both success shapes, both errors,
\* and two shapes no batch callback accepts
BatchProcessResults ==
    { Res,
      MultiRes(<<Ok(Unit), Err("KeyIsLocked")>>),
      Failed("KeyIsLocked"),
      Failed("AlreadyExist"),
      MvccKey(MvccInfoDefault),
      NextCommand("cmd") }

\* Vec<(u64, ProcessResult)>
BatchInputs == SeqsUpTo(Ids \X BatchProcessResults, MaxBatch)

\* outcome of a dispatch: the continuation is called with arg, or the thread panics
Invoke(arg) == [panic |-> FALSE, msg |-> "", calls |-> <<arg>>]
Panic(msg)  == [panic |-> TRUE, msg |-> msg, calls |-> <<>>]

\* the Boolean arm as it would be with a catch-all that answers Ok(())
ExecuteBooleanLenient(pr) ==
    CASE pr.tag = "Failed" -> Invoke(Err(pr.err))
      [] OTHER             -> Invoke(Ok(Unit))

\* execute, the arm of each callback variant: match pr { .. }
ExecuteBoolean(pr) ==
    CASE pr.tag = "Res"    -> Invoke(Ok(Unit))
      [] pr.tag = "Failed" -> Invoke(Err(pr.err))
      [] OTHER             -> Panic("process result mismatch")

\* the Booleans arm as it would be if it answered an empty result vector
ExecuteBooleansDroppingResults(pr) ==
    CASE pr.tag = "MultiRes" -> Invoke(Ok(<<>>))
      [] pr.tag = "Failed"   -> Invoke(Err(pr.err))
      [] OTHER               -> Panic("process result mismatch")

ExecuteBooleans(pr) ==
    CASE pr.tag = "MultiRes" -> Invoke(Ok(pr.results))
      [] pr.tag = "Failed"   -> Invoke(Err(pr.err))
      [] OTHER               -> Panic("process result mismatch")

ExecuteMvccInfoByKey(pr) ==
    CASE pr.tag = "MvccKey" -> Invoke(Ok(pr.mvcc))
      [] pr.tag = "Failed"  -> Invoke(Err(pr.err))
      [] OTHER              -> Panic("process result mismatch")

ExecuteMvccInfoByStartTs(pr) ==
    CASE pr.tag = "MvccStartTs" -> Invoke(Ok(pr.mvcc))
      [] pr.tag = "Failed"      -> Invoke(Err(pr.err))
      [] OTHER                  -> Panic("process result mismatch")

\* the Locks arm as it would be if it replaced the error by a fixed one
ExecuteLocksTranslatingError(pr) ==
    CASE pr.tag = "Locks"  -> Invoke(Ok(pr.locks))
      [] pr.tag = "Failed" -> Invoke(Err("AlreadyExist"))
      [] OTHER             -> Panic("process result mismatch")

ExecuteLocks(pr) ==
    CASE pr.tag = "Locks"  -> Invoke(Ok(pr.locks))
      [] pr.tag = "Failed" -> Invoke(Err(pr.err))
      [] OTHER             -> Panic("process result mismatch")

ExecuteTxnStatus(pr) ==
    CASE pr.tag = "TxnStatus" -> Invoke(Ok(pr.txn_status))
      [] pr.tag = "Failed"    -> Invoke(Err(pr.err))
      [] OTHER                -> Panic("process result mismatch")

\* StorageCallback::execute(self, pr): match self { .. }
ExecuteOutcome(cb, pr) ==
    CASE cb = "Boolean"           -> ExecuteBoolean(pr)
      [] cb = "Booleans"          -> ExecuteBooleans(pr)
      [] cb = "MvccInfoByKey"     -> ExecuteMvccInfoByKey(pr)
      [] cb = "MvccInfoByStartTs" -> ExecuteMvccInfoByStartTs(pr)
      [] cb = "Locks"             -> ExecuteLocks(pr)
      [] cb = "TxnStatus"         -> ExecuteTxnStatus(pr)
      [] OTHER                    -> Panic("callback type mismatch")

\* execute as it would be through a borrow: the caller keeps the callback
OwnedAfterExecuteBorrowed == TRUE

\* execute takes self by value: the caller no longer owns the callback afterwards
OwnedAfterExecute == FALSE

\* the closure of execute_batch's map() for BatchBoolean: one element
MapBatchBoolean(item) ==
    LET id == item[1]
        r  == item[2]
    IN  CASE r.tag = "Res"    -> [panic |-> FALSE, out |-> <<id, Ok(Unit)>>]
          [] r.tag = "Failed" -> [panic |-> FALSE, out |-> <<id, Err(r.err)>>]
          [] OTHER            -> [panic |-> TRUE]

\* the closure of execute_batch's map() for BatchBooleans: one element
MapBatchBooleans(item) ==
    LET id == item[1]
        r  == item[2]
    IN  CASE r.tag = "MultiRes" -> [panic |-> FALSE, out |-> <<id, Ok(r.results)>>]
          [] r.tag = "Failed"   -> [panic |-> FALSE, out |-> <<id, Err(r.err)>>]
          [] OTHER              -> [panic |-> TRUE]

MapBatch(cb, item) ==
    IF cb = "BatchBoolean" THEN MapBatchBoolean(item) ELSE MapBatchBooleans(item)

\* collect as it would be if the results were pushed at the front
RECURSIVE CollectReversed(_, _, _, _)
CollectReversed(cb, pr, i, acc) ==
    IF i > Len(pr) THEN [panic |-> FALSE, vec |-> acc]
    ELSE LET m == MapBatch(cb, pr[i])
         IN  IF m.panic THEN [panic |-> TRUE]
             ELSE CollectReversed(cb, pr, i + 1, <<m.out>> \o acc)

\* collect as it would be with filter_map: an unexpected result is skipped
RECURSIVE CollectSkipping(_, _, _, _)
CollectSkipping(cb, pr, i, acc) ==
    IF i > Len(pr) THEN [panic |-> FALSE, vec |-> acc]
    ELSE LET m == MapBatch(cb, pr[i])
         IN  IF m.panic THEN CollectSkipping(cb, pr, i + 1, acc)
             ELSE CollectSkipping(cb, pr, i + 1, Append(acc, m.out))

\* pr.into_iter().map(..).collect(): the elements in order, from the i-th on,
\* appended to acc; a panic in the closure drops what was collected
RECURSIVE Collect(_, _, _, _)
Collect(cb, pr, i, acc) ==
    IF i > Len(pr) THEN [panic |-> FALSE, vec |-> acc]
    ELSE LET m == MapBatch(cb, pr[i])
         IN  IF m.panic THEN [panic |-> TRUE]
             ELSE Collect(cb, pr, i + 1, Append(acc, m.out))

\* execute_batch as it would be without the check of the callback variant
ExecuteBatchOutcomeAnyCallback(cb, pr) ==
    LET c == Collect(IF cb = "BatchBooleans" THEN cb ELSE "BatchBoolean", pr, 1, <<>>)
    IN  IF c.panic THEN Panic("process result mismatch") ELSE Invoke(c.vec)

\* StorageCallback::execute_batch(&mut self, pr): the argument of cb(..) is
\* evaluated before the call
ExecuteBatchOutcome(cb, pr) ==
    IF cb \in {"BatchBoolean", "BatchBooleans"}
    THEN LET c == Collect(cb, pr, 1, <<>>)
         IN  IF c.panic THEN Panic("process result mismatch") ELSE Invoke(c.vec)
    ELSE Panic("callback type mismatch")

\* counting occurrences of an id as 0, 1 or 2 (= more than once)
Bump(count, by) == IF count + by > 2 THEN 2 ELSE count + by

\* how many elements of a sequence of (id, _) pairs carry the id
Occurrences(s, id) == Cardinality({i \in 1..Len(s) : s[i][1] = id})

\* every id the continuation was handed by the calls of one dispatch
DeliveredBy(calls, id) ==
    IF calls = <<>> THEN 0 ELSE Occurrences(calls[1], id)

DispatchInit ==
    /\ callback \in StorageCallbacks
    /\ owned = TRUE
    /\ panicked = FALSE
    /\ ncalls = 0
    /\ lastOp = [op |-> "none"]
    /\ lastCalls = <<>>
    /\ delivered = [id \in Ids |-> 0]
    /\ reported = [id \in Ids |-> 0]
    /\ waves = 0

\* callback.execute(pr): self is moved into the call
Execute ==
    \E pr \in ProcessResults :
        LET r == ExecuteOutcome(callback, pr)
        IN  /\ owned
            /\ ~panicked
            /\ owned' = OwnedAfterExecute
            /\ panicked' = r.panic
            /\ ncalls' = ncalls + Len(r.calls)
            /\ lastOp' = [op |-> "execute", pr |-> pr]
            /\ lastCalls' = r.calls
            /\ UNCHANGED <<callback, delivered, reported, waves>>

\* callback.execute_batch(pr): through &mut self, the callback stays with the caller
ExecuteBatch ==
    \E pr \in BatchInputs :
        LET r == ExecuteBatchOutcome(callback, pr)
        IN  /\ owned
            /\ ~panicked
            /\ waves < MaxWaves
            /\ waves' = waves + 1
            /\ panicked' = r.panic
            /\ ncalls' = ncalls + Len(r.calls)
            /\ lastOp' = [op |-> "execute_batch", pr |-> pr]
            /\ lastCalls' = r.calls
            /\ delivered' = [id \in Ids |-> Bump(delivered[id], DeliveredBy(r.calls, id))]
            /\ reported' = [id \in Ids |-> Bump(reported[id], Occurrences(pr, id))]
            /\ UNCHANGED <<callback, owned>>

----------------------------------------------------------------------------
(* Specifications *)

\* the dispatch bridge
Init ==
    /\ DispatchInit
    /\ MutationInit
    /\ mutArgs = [tag |-> "Lock", key |-> "k1", value |-> None, secondary_keys |-> None]
    /\ TxnInit
Next ==
    \/ Execute /\ UNCHANGED <<mutationVars, txnVars>>
    \/ ExecuteBatch /\ UNCHANGED <<mutationVars, txnVars>>
Spec == Init /\ [][Next]_vars

\* one Mutation and the calls made on it
MutationSpecInit ==
    /\ MutationInit
    /\ DispatchInit
    /\ callback = "Boolean"
    /\ TxnInit
MutationNext ==
    \/ CallKey /\ UNCHANGED <<dispatchVars, txnVars>>
    \/ CallIsInsert /\ UNCHANGED <<dispatchVars, txnVars>>
    \/ CallIntoInner /\ UNCHANGED <<dispatchVars, txnVars>>
MutationSpec == MutationSpecInit /\ [][MutationNext]_vars

\* TxnStatus values, built and compared
TxnSpecInit ==
    /\ TxnInit
    /\ DispatchInit
    /\ callback = "Boolean"
    /\ MutationInit
    /\ mutArgs = [tag |-> "Lock", key |-> "k1", value |-> None, secondary_keys |-> None]
TxnNext ==
    \/ BuildUncommitted /\ UNCHANGED <<dispatchVars, mutationVars>>
    \/ BuildCommitted /\ UNCHANGED <<dispatchVars, mutationVars>>
    \/ WriteLhs /\ UNCHANGED <<dispatchVars, mutationVars>>
    \/ WriteRhs /\ UNCHANGED <<dispatchVars, mutationVars>>
    \/ Compare /\ UNCHANGED <<dispatchVars, mutationVars>>
TxnSpec == TxnSpecInit /\ [][TxnNext]_vars

----------------------------------------------------------------------------
(* The dispatch table of the design: what each callback variant accepts *)

\* the ProcessResult variant a callback variant takes as its success
SuccessVariant(cb) ==
    CASE cb = "Boolean"           -> "Res"
      [] cb = "Booleans"          -> "MultiRes"
      [] cb = "MvccInfoByKey"     -> "MvccKey"
      [] cb = "MvccInfoByStartTs" -> "MvccStartTs"
      [] cb = "Locks"             -> "Locks"
      [] cb = "TxnStatus"         -> "TxnStatus"
      [] cb = "BatchBoolean"      -> "Res"
      [] cb = "BatchBooleans"     -> "MultiRes"

\* the payload a ProcessResult success variant holds
PayloadOf(pr) ==
    CASE pr.tag = "Res"         -> Unit
      [] pr.tag = "MultiRes"    -> pr.results
      [] pr.tag = "MvccKey"     -> pr.mvcc
      [] pr.tag = "MvccStartTs" -> pr.mvcc
      [] pr.tag = "Locks"       -> pr.locks
      [] pr.tag = "TxnStatus"   -> pr.txn_status

\* what the continuation of cb is owed for a well-formed result
ExpectedResult(pr) ==
    IF pr.tag = "Failed" THEN Err(pr.err) ELSE Ok(PayloadOf(pr))

WellFormedFor(cb, pr) == pr.tag \in {SuccessVariant(cb), "Failed"}

ExecutedSingleShot == lastOp.op = "execute" /\ callback \in SingleShotCallbacks
ExecutedBatch      == lastOp.op = "execute_batch" /\ callback \in BatchCallbacks

----------------------------------------------------------------------------
(* Claims about the dispatch bridge (specification Spec) *)

\* C1: execute on a single-shot callback with its matching success variant
\* invokes the continuation exactly once, with Ok of exactly the payload the
\* ProcessResult holds (Ok(()) for Res), and does not panic.
C1_ExecuteDeliversSuccess ==
    (ExecutedSingleShot /\ lastOp.pr.tag = SuccessVariant(callback)) =>
        /\ ~panicked
        /\ ncalls = 1
        /\ lastCalls = << Ok(PayloadOf(lastOp.pr)) >>

C1_Witness ==
    /\ callback = "Booleans"
    /\ lastOp.op = "execute"
    /\ lastOp.pr = MultiRes(<<Ok(Unit), Err("AlreadyExist")>>)
    /\ lastCalls = << [ok |-> TRUE, val |-> <<Ok(Unit), Err("AlreadyExist")>>] >>
    /\ ~panicked

\* C2: execute on a single-shot callback with Failed{err} invokes the
\* continuation exactly once with Err(err), the very error of the
\* ProcessResult, and does not panic.
C2_ExecuteDeliversError ==
    (ExecutedSingleShot /\ lastOp.pr.tag = "Failed") =>
        /\ ~panicked
        /\ ncalls = 1
        /\ lastCalls = << [ok |-> FALSE, err |-> lastOp.pr.err] >>

C2_Witness ==
    /\ callback = "Locks"
    /\ lastOp.op = "execute"
    /\ lastOp.pr = Failed("KeyIsLocked")
    /\ lastCalls = << [ok |-> FALSE, err |-> "KeyIsLocked"] >>
    /\ ~panicked

\* C3: execute on a single-shot callback with a ProcessResult that is neither
\* its success variant nor Failed panics, and the continuation is never invoked.
C3_ExecuteMismatchPanics ==
    (ExecutedSingleShot /\ ~WellFormedFor(callback, lastOp.pr)) =>
        /\ panicked
        /\ ncalls = 0
        /\ lastCalls = <<>>

C3_Witness ==
    /\ callback = "Boolean"
    /\ lastOp.op = "execute"
    /\ lastOp.pr = MvccKey(MvccInfoDefault)
    /\ panicked
    /\ ncalls = 0

\* C4: execute_batch on a batch callback, given a sequence (possibly empty) of
\* (id, result) pairs that are all the callback's success variant or Failed,
\* invokes the continuation exactly once with a sequence of the same length and
\* order whose i-th entry is (id_i, Ok(payload_i)) or (id_i, Err(err_i)).
C4_BatchDeliversInOrder ==
    (ExecutedBatch /\ \A i \in 1..Len(lastOp.pr) : WellFormedFor(callback, lastOp.pr[i][2])) =>
        /\ ~panicked
        /\ Len(lastCalls) = 1
        /\ Len(lastCalls[1]) = Len(lastOp.pr)
        /\ \A i \in 1..Len(lastOp.pr) :
               lastCalls[1][i] = <<lastOp.pr[i][1], ExpectedResult(lastOp.pr[i][2])>>
        /\ {lastCalls[1][i][1] : i \in 1..Len(lastCalls[1])}
               = {lastOp.pr[i][1] : i \in 1..Len(lastOp.pr)}

C4_Witness ==
    /\ callback = "BatchBoolean"
    /\ lastOp.op = "execute_batch"
    /\ lastOp.pr = << <<1, Res>>, <<2, Failed("KeyIsLocked")>> >>
    /\ lastCalls = << << <<1, Ok(Unit)>>, <<2, Err("KeyIsLocked")>> >> >>
    /\ ~panicked

\* C5: execute on a batch callback panics for every ProcessResult, and
\* execute_batch on a single-shot callback panics for every input sequence;
\* in both cases the continuation is never invoked.
C5_NoCrossDelivery ==
    /\ (lastOp.op = "execute" /\ callback \in BatchCallbacks) =>
           (panicked /\ lastCalls = <<>> /\ ncalls = waves)
    /\ (lastOp.op = "execute_batch" /\ callback \in SingleShotCallbacks) =>
           (panicked /\ ncalls = 0 /\ lastCalls = <<>>)

C5_Witness ==
    /\ callback = "BatchBoolean"
    /\ lastOp.op = "execute"
    /\ lastOp.pr = Res
    /\ panicked
    /\ lastCalls = <<>>

\* C6 as stated: the continuation of a single-shot callback is invoked at most
\* once, and over any sequence of execute_batch calls, for any inputs, each
\* command id is delivered to the continuation at most once.
C6_EachIdAtMostOnce ==
    /\ callback \in SingleShotCallbacks => ncalls <= 1
    /\ \A id \in Ids : delivered[id] <= 1

\* C6 amended: a single-shot callback is consumed by execute and its
\* continuation is invoked at most once; an execute_batch call invokes the
\* continuation at most once and hands it each id exactly as often as the id
\* occurs in that call's input, so over the waves an id is delivered no more
\* often than the callers reported it (at most once if no id is reported twice).
C6_AtMostOncePerReport ==
    /\ Len(lastCalls) <= 1
    /\ callback \in SingleShotCallbacks => ncalls <= 1
    /\ lastOp.op = "execute" => ~owned
    /\ (ExecutedBatch /\ ~panicked) =>
           \A id \in Ids : Occurrences(lastCalls[1], id) = Occurrences(lastOp.pr, id)
    /\ \A id \in Ids : delivered[id] <= reported[id]
    /\ (\A id \in Ids : reported[id] <= 1) => (\A id \in Ids : delivered[id] <= 1)

C6_Witness ==
    /\ callback = "BatchBooleans"
    /\ waves = 2
    /\ ncalls = 2
    /\ delivered = [id \in Ids |-> 1]
    /\ reported = [id \in Ids |-> 1]

\* C10: if any element given to execute_batch on a batch callback is neither
\* the callback's success variant nor Failed, execute_batch panics and the
\* continuation is not invoked at all in that call, not even for the
\* well-formed elements before the bad one.
C10_BatchAllOrNothing ==
    (ExecutedBatch /\ \E i \in 1..Len(lastOp.pr) : ~WellFormedFor(callback, lastOp.pr[i][2])) =>
        /\ panicked
        /\ lastCalls = <<>>
        /\ ncalls < waves

C10_Witness ==
    /\ callback = "BatchBoolean"
    /\ lastOp.op = "execute_batch"
    /\ lastOp.pr = << <<1, Res>>, <<2, NextCommand("cmd")>> >>
    /\ panicked
    /\ lastCalls = <<>>

----------------------------------------------------------------------------
(* Claims about Mutation (specification MutationSpec) *)

\* C7: key() returns the mutation's target key and leaves the mutation as it
\* was, however often it is called; into_inner() yields (key, value, secondary
\* keys) with that key, the secondary keys unchanged, and the value Some(v) for
\* Put and Insert, None for Delete and Lock.
C7_KeyAndIntoInner ==
    /\ keyRet # None => keyRet = Some(mutArgs.key)
    /\ mutation = NewMutation(mutArgs)
    /\ inner # None =>
           /\ inner[1][1] = mutArgs.key
           /\ inner[1][2] = (IF mutArgs.tag \in {"Put", "Insert"} THEN mutArgs.value ELSE None)
           /\ inner[1][3] = mutArgs.secondary_keys
           /\ keyRet # None => inner[1][1] = keyRet[1]

C7_Witness ==
    /\ mutArgs = [tag |-> "Delete", key |-> "k2", value |-> None,
                  secondary_keys |-> Some(<<"r2", "r1">>)]
    /\ keyCalls = 2
    /\ keyRet = Some("k2")
    /\ inner = Some(<<"k2", None, Some(<<"r2", "r1">>)>>)

\* the same fields under the other of Put / Insert
Twin(a) == [a EXCEPT !.tag = IF a.tag = "Put" THEN "Insert" ELSE "Put"]

\* C8: is_insert() is true exactly for Insert; a Put and an Insert with the
\* same fields have equal into_inner() outputs and different is_insert().
C8_IsInsertOnlyInsert ==
    /\ insertRet # None => insertRet[1] = (mutArgs.tag = "Insert")
    /\ (insertRet # None /\ inner # None /\ mutArgs.tag \in {"Put", "Insert"}) =>
           /\ inner[1] = IntoInner(NewMutation(Twin(mutArgs)))
           /\ insertRet[1] # IsInsert(NewMutation(Twin(mutArgs)))

C8_Witness ==
    /\ mutArgs.tag = "Put"
    /\ insertRet = Some(FALSE)
    /\ inner = Some(<<"k1", Some("v2"), Some(<<"r1">>)>>)

----------------------------------------------------------------------------
(* Claims about TxnStatus (specification TxnSpec) *)

\* same variant, equal fields
Structural(a, b) ==
    /\ a.tag = b.tag
    /\ a.tag = "Uncommitted" => (a.lock_ttl = b.lock_ttl /\ a.min_commit_ts = b.min_commit_ts)
    /\ a.tag = "Committed" => a.commit_ts = b.commit_ts

\* C9: uncommitted(ttl, ts) is Uncommitted{lock_ttl: ttl, min_commit_ts: ts},
\* committed(ts) is Committed{commit_ts: ts}, and == holds exactly between
\* statuses of the same variant with equal fields: uncommitted(ttl, ts) differs
\* from the other variants and from an Uncommitted with another field.
C9_TxnStatusEquality ==
    /\ built.fn = "uncommitted" =>
           lhs = [tag |-> "Uncommitted", lock_ttl |-> built.lock_ttl,
                  min_commit_ts |-> built.min_commit_ts]
    /\ built.fn = "committed" =>
           lhs = [tag |-> "Committed", commit_ts |-> built.commit_ts]
    /\ eqRet # None => eqRet[1] = Structural(lhs, rhs)
    /\ (eqRet # None /\ built.fn = "uncommitted") =>
           eqRet[1] = /\ rhs.tag = "Uncommitted"
                      /\ rhs.lock_ttl = built.lock_ttl
                      /\ rhs.min_commit_ts = built.min_commit_ts

C9_Witness ==
    /\ built = [fn |-> "uncommitted", lock_ttl |-> 1, min_commit_ts |-> 0]
    /\ rhs = [tag |-> "Uncommitted", lock_ttl |-> 1, min_commit_ts |-> 1]
    /\ eqRet = Some(FALSE)

====
